---- MODULE Spec2Model ----
(***************************************************************************)
(* Credit Portfolio Risk & Strategy Simulator: the portfolio metrics, the  *)
(* strategy simulation and the score banding of app/dashboard.py.          *)
(*                                                                         *)
(* A DataFrame is a record [columns, rows]: the set of column names and    *)
(* the sequence of rows, each row a function from the column names to the  *)
(* cell values.  Reading a column a frame does not have is pandas'         *)
(* KeyError.  A float is a record [nan, n, d]: NaN, or the exact rational  *)
(* n/d in lowest terms (rounding of the binary representation is not       *)
(* modelled).  A missing cell of a string column is the string "NaN".      *)
(***************************************************************************)
EXTENDS Integers, Sequences, FiniteSets, TLC

\* ------------------------------------------------------------------ bounds

\* The largest number of rows of the loaded table.
MaxRows == 4

\* ------------------------------------------------------------------ floats

RECURSIVE GCD(_, _)
GCD(a, b) ==
    IF b = 0 THEN a ELSE GCD(b, a % b)

Abs(x) ==
    IF x < 0 THEN -x ELSE x

\* float('nan')
NaN ==
    [nan |-> TRUE, n |-> 0, d |-> 1]

\* The float n/d; a division 0/0 of numpy scalars, and the mean of an empty
\* Series (sum 0 over count 0), is NaN.
Float(n, d) ==
    IF d = 0
    THEN NaN
    ELSE LET g == GCD(Abs(n), d)
         IN  [nan |-> FALSE, n |-> n \div g, d |-> d \div g]

\* The float of the integer k.
Num(k) ==
    Float(k, 1)

IsZero(x) ==
    ~x.nan /\ x.n = 0

\* x - y of two floats; NaN when either is.
FloatSub(x, y) ==
    IF x.nan \/ y.nan
    THEN NaN
    ELSE Float(x.n * y.d - y.n * x.d, x.d * y.d)

\* x <= y of two floats; every comparison with NaN is False.
FloatLeq(x, y) ==
    ~x.nan /\ ~y.nan /\ x.n * y.d <= y.n * x.d

\* ------------------------------------------------------------------ tables

\* The columns every portfolio table has, and the optional ones.
RequiredColumns ==
    {"customer_id", "acceptance_decision", "application_score", "credit_limit",
     "balance", "utilization_rate", "delinquency_status"}

RiskColumns ==
    {"risk_segment", "risk_score"}

Customer(id, dec, score, bal, lim, util, delinq, band, seg, risk) ==
    [customer_id |-> id, acceptance_decision |-> dec, application_score |-> score,
     balance |-> bal, credit_limit |-> lim, utilization_rate |-> util,
     delinquency_status |-> delinq, income_band |-> band, risk_segment |-> seg,
     risk_score |-> risk]

\* The customers a loaded table is drawn from.
Customers ==
    << Customer(1, "Approved", 450, 100, 1000, 10, 0, "Low", "Low Risk", 20),
       Customer(2, "Approved", 600, 200, 1000, 20, 0, "Medium", "Medium Risk", 50),
       Customer(3, "Approved", 700, 300, 1000, 30, 0, "High", "Low Risk", 10),
       Customer(4, "Approved", 499, 400, 800, 50, 1, "NaN", "High Risk", 90),
       Customer(5, "Approved", 500, 500, 1000, 50, 1, "Medium", "High Risk", 70),
       Customer(6, "Approved", 649, 600, 1000, 60, 2, "Other", "Medium Risk", 70),
       Customer(7, "Approved", 650, 300, 500, 60, 2, "High", "High Risk", 80),
       Customer(8, "Approved", 750, 900, 1000, 90, 0, "High", "Low Risk", 5),
       Customer(9, "Approved", 0, 100, 200, 50, 3, "Low", "High Risk", 95),
       Customer(10, "Approved", 950, 0, 2000, 0, 0, "High", "Low Risk", 1),
       Customer(11, "Declined", 720, 400, 1000, 40, 1, "High", "Low Risk", 15),
       Customer(12, "Declined", 430, 700, 700, 100, 2, "Low", "High Risk", 99) >>

RECURSIVE SetToSeq(_)
\* The elements of a set of numbers, in increasing order.
SetToSeq(S) ==
    IF S = {}
    THEN << >>
    ELSE LET m == CHOOSE x \in S : \A y \in S : x <= y
         IN  << m >> \o SetToSeq(S \ {m})

\* The rows `ids` of Customers, restricted to the columns `cols`.
Table(cols, ids) ==
    LET order == SetToSeq(ids)
    IN  [columns |-> cols,
         rows |-> [i \in 1..Len(order) |-> [c \in cols |-> Customers[order[i]][c]]]]

\* pd.DataFrame(): no columns, no rows.
EmptyFrame ==
    [columns |-> {}, rows |-> << >>]

\* What load_portfolio_data can return: the empty frame when a file is
\* missing, else the rows of credit_portfolio.csv, left-joined with the
\* risk metrics file when that one exists.
LoadablePortfolios ==
    {EmptyFrame} \cup
    { Table(RequiredColumns \cup band \cup risk, ids) :
        band \in {{}, {"income_band"}},
        risk \in {{}, RiskColumns},
        ids \in {s \in SUBSET (1..Len(Customers)) : Cardinality(s) <= MaxRows} }

\* df.empty
IsEmpty(d) ==
    d.columns = {} \/ Len(d.rows) = 0

\* df[mask]: the frame of the rows `kept` of d, with the columns of d.
Rows(d, kept) ==
    [columns |-> d.columns, rows |-> kept]

RECURSIVE SumSeq(_)
SumSeq(s) ==
    IF Len(s) = 0 THEN 0 ELSE Head(s) + SumSeq(Tail(s))

\* df[col] as a sequence of cells.
Column(d, col) ==
    [i \in 1..Len(d.rows) |-> d.rows[i][col]]

\* df[col].sum()
ColumnSum(d, col) ==
    SumSeq(Column(d, col))

\* df[col].mean(): NaN for a frame without rows.
ColumnMean(d, col) ==
    Float(ColumnSum(d, col), Len(d.rows))

\* (df[col] > 0).sum()
CountPositive(d, col) ==
    Len(SelectSeq(Column(d, col), LAMBDA v : v > 0))

\* (df[col] > 0).mean() * 100: NaN for a frame without rows.
PositiveRate(d, col) ==
    Float(CountPositive(d, col) * 100, Len(d.rows))

\* ----------------------------------------------- calculate_portfolio_metrics

\* Mutant of ApprovedOf: the aggregates are taken over the whole table.
ApprovedOfUnfiltered(d) ==
    Rows(d, d.rows)

\* df[df['acceptance_decision'] == 'Approved']
ApprovedOf(d) ==
    Rows(d, SelectSeq(d.rows, LAMBDA r : r.acceptance_decision = "Approved"))

\* Mutant of delinquent_customers: the count is taken over the whole table.
delinquent_customers_of_table(d) ==
    CountPositive(d, "delinquency_status")

\* (approved_df['delinquency_status'] > 0).sum()
delinquent_customers(d) ==
    CountPositive(ApprovedOf(d), "delinquency_status")

\* The dict calculate_portfolio_metrics returns: {} for an empty frame.
calculate_portfolio_metrics(d) ==
    IF IsEmpty(d)
    THEN << >>
    ELSE LET approved_df == ApprovedOf(d)
         IN  [total_customers |-> Len(d.rows),
              approved_customers |-> Len(approved_df.rows),
              approval_rate |->
                  IF Len(d.rows) > 0
                  THEN Float(Len(approved_df.rows) * 100, Len(d.rows))
                  ELSE Num(0),
              portfolio_balance |-> ColumnSum(approved_df, "balance"),
              total_limits |-> ColumnSum(approved_df, "credit_limit"),
              avg_utilization |-> ColumnMean(approved_df, "utilization_rate"),
              avg_credit_score |-> ColumnMean(approved_df, "application_score"),
              delinquency_rate |-> PositiveRate(approved_df, "delinquency_status"),
              delinquent_customers |-> delinquent_customers(d),
              high_risk_customers |->
                  IF "risk_segment" \in approved_df.columns
                  THEN Len(SelectSeq(approved_df.rows,
                                     LAMBDA r : r.risk_segment = "High Risk"))
                  ELSE 0]

\* -------------------------------------------------- create_strategy_simulation

\* st.slider("Minimum Credit Score", 400, 800, 500, 25)
MinScoreLow == 400
MinScoreHigh == 800
MinScoreDefault == 500
MinScoreStep == 25

\* Every value the minimum-score slider can take.
MinScoreValues ==
    { m \in MinScoreLow..MinScoreHigh : (m - MinScoreLow) % MinScoreStep = 0 }

\* st.slider("Credit Limit Multiplier", 0.5, 2.0, 1.0, 0.1), in tenths.
LimitMultiplierLow == 5
LimitMultiplierHigh == 20
LimitMultiplierDefault == 10

\* st.multiselect("Target Income Bands", options=['Low', 'Medium', 'High'])
IncomeBandOptions ==
    {"Low", "Medium", "High"}

\* The slider positions the simulation is run with.
MinScoreInputs ==
    {MinScoreLow, MinScoreDefault, 650, MinScoreHigh}

\* Every value the multiplier slider can take, in tenths.
LimitMultiplierValues ==
    LimitMultiplierLow..LimitMultiplierHigh

LimitMultiplierInputs ==
    {LimitMultiplierDefault, LimitMultiplierHigh}

IncomeTargetInputs ==
    {{}, {"Low"}, {"Medium", "High"}, IncomeBandOptions}

\* Mutant of CopyFrame: strategy_df = df, the same object under a second name.
CopyFrameAlias(d) ==
    [frame |-> d, shares |-> TRUE]

\* df.copy(): a new frame with the same cells, sharing nothing with df.
CopyFrame(d) ==
    [frame |-> d, shares |-> FALSE]

\* Mutant of ScoreAtLeast: the comparison turned around.
ScoreAtMost(score, ms) ==
    score <= ms

\* series >= min_score
ScoreAtLeast(score, ms) ==
    score >= ms

\* Mutant of IsIn: an income band outside the options passes.
IsInOrUnknown(v, values) ==
    v \in values \/ v \notin {"Low", "Medium", "High", "NaN"}

\* Mutant of IsIn: a missing cell passes whatever the values are.
IsInOrMissing(v, values) ==
    v \in values \/ v = "NaN"

\* series.isin(values): False for a missing cell.
IsIn(v, values) ==
    v \in values

\* (strategy_df['application_score'] >= min_score) &
\* (strategy_df['income_band'].isin(income_targets)), one Boolean per row.
eligible_mask(d, ms, targets) ==
    [i \in 1..Len(d.rows) |->
        /\ ScoreAtLeast(d.rows[i].application_score, ms)
        /\ IsIn(d.rows[i].income_band, targets)]

\* Mutant of DecisionAfter: the decision is set from the mask in both directions.
DecisionFromMask(r, eligible) ==
    IF ~eligible THEN "Declined" ELSE "Approved"

\* The cell df.loc[~mask, 'acceptance_decision'] = 'Declined' leaves in row i.
DecisionAfter(r, eligible) ==
    IF ~eligible THEN "Declined" ELSE r.acceptance_decision

\* strategy_df.loc[~eligible_mask, 'acceptance_decision'] = 'Declined'
ForceDeclined(d, mask) ==
    [columns |-> d.columns,
     rows |-> [i \in 1..Len(d.rows) |->
                  [d.rows[i] EXCEPT !.acceptance_decision = DecisionAfter(d.rows[i], mask[i])]]]

\* Mutant of apply_policy: the limits of the working copy are scaled by
\* limit_multiplier, which the slider gives in tenths.
apply_policy_scaling_limits(d, ms, lm, targets) ==
    LET declined == ForceDeclined(d, eligible_mask(d, ms, targets))
    IN  [columns |-> declined.columns,
         rows |-> [i \in 1..Len(declined.rows) |->
                      [declined.rows[i] EXCEPT
                          !.credit_limit = (declined.rows[i].credit_limit * lm) \div 10]]]

\* What the button does to the working copy with the three widget values:
\* the mask and the assignment, and nothing that reads limit_multiplier.
apply_policy(d, ms, lm, targets) ==
    ForceDeclined(d, eligible_mask(d, ms, targets))

\* (new - old) / old * 100 of two numpy numbers: 0/0 is NaN, and raises
\* nothing.
PercentChange(new, old) ==
    Float((new - old) * 100, old)

\* The four changes the comparison shows under its metrics.
strategy_deltas(baseline, strategy) ==
    [approval_change |-> FloatSub(strategy.approval_rate, baseline.approval_rate),
     balance_change |-> PercentChange(strategy.portfolio_balance,
                                      baseline.portfolio_balance),
     delinq_change |-> FloatSub(strategy.delinquency_rate, baseline.delinquency_rate),
     score_change |-> FloatSub(strategy.avg_credit_score, baseline.avg_credit_score)]

\* The button "Simulate Strategy Impact" on the table d: how the run ends,
\* the two metric dicts, the working copy, and the source table afterwards.
\* limit_multiplier is read from its slider and used nowhere.
create_strategy_simulation(d, ms, lm, targets) ==
    IF IsEmpty(d)
    THEN [status |-> "skipped", source |-> d, baseline_metrics |-> << >>,
          strategy_df |-> EmptyFrame, strategy_metrics |-> << >>,
          deltas |-> << >>]
    ELSE LET copy == CopyFrame(d)
         IN  IF "income_band" \notin copy.frame.columns
             THEN [status |-> "KeyError", source |-> d,
                   baseline_metrics |-> calculate_portfolio_metrics(d),
                   strategy_df |-> copy.frame, strategy_metrics |-> << >>,
                   deltas |-> << >>]
             ELSE LET working == apply_policy(copy.frame, ms, lm, targets)
                      baseline == calculate_portfolio_metrics(d)
                      strategy == calculate_portfolio_metrics(working)
                  IN  [status |-> "ok",
                       source |-> IF copy.shares THEN working ELSE d,
                       baseline_metrics |-> baseline,
                       strategy_df |-> working,
                       strategy_metrics |-> strategy,
                       deltas |-> strategy_deltas(baseline, strategy)]

\* ------------------------------------------------- create_risk_analysis_charts

\* pd.cut(..., bins=[0, 500, 600, 650, 700, 750, 900], labels=[...])
ScoreBins ==
    << 0, 500, 600, 650, 700, 750, 900 >>

ScoreLabels ==
    << "<500", "500-599", "600-649", "650-699", "700-749", "750+" >>

\* pd.cut(x, bins, labels) with its defaults right=True, include_lowest=False:
\* the label of the interval (bins[i], bins[i+1]] that holds x, and a missing
\* value when no interval does.
Cut(x, bins, labels) ==
    LET hit == { i \in 1..Len(labels) : bins[i] < x /\ x <= bins[i + 1] }
    IN  IF hit = {} THEN "NaN" ELSE labels[CHOOSE i \in hit : TRUE]

\* approved_df['score_band'] of one row.
score_band(r) ==
    Cut(r.application_score, ScoreBins, ScoreLabels)

\* approved_df.groupby('score_band', observed=True).agg(...): one entry per band
\* that holds a row (rows without a band belong to no group), with the number
\* of its customers and (delinquency_status > 0).mean() * 100.
risk_by_score_of(d) ==
    LET approved_df == ApprovedOf(d)
        observed == { score_band(approved_df.rows[i]) : i \in 1..Len(approved_df.rows) }
                        \ {"NaN"}
        group(b) == Rows(approved_df,
                         SelectSeq(approved_df.rows, LAMBDA r : score_band(r) = b))
    IN  [b \in observed |->
            [customers |-> Len(group(b).rows),
             delinquency_rate |-> PositiveRate(group(b), "delinquency_status")]]

\* create_risk_analysis_charts(d), as far as the table behind the chart
\* "Delinquency Rate by Credit Score Band" goes.
create_risk_analysis_charts(d) ==
    IF "acceptance_decision" \notin d.columns
    THEN [status |-> "KeyError", risk_by_score |-> << >>]
    ELSE [status |-> "ok", risk_by_score |-> risk_by_score_of(d)]

\* ------------------------------------------------ main: "High-Risk Customers"

\* st.number_input("Minimum Balance (£)", 0, 50000, 1000)
MinBalanceDefault == 1000

\* st.number_input("Maximum Credit Score", 300, 900, 650)
MaxScoreDefault == 650

\* st.number_input("Minimum Utilization (%)", 0, 100, 50)
MinUtilizationDefault == 50

\* The values the page is run with.
MinBalanceInputs ==
    {0, 300, MinBalanceDefault}

MaxScoreInputs ==
    {MaxScoreDefault, 900}

MinUtilizationInputs ==
    {0, MinUtilizationDefault}

\* Mutant of MeetsBounds: the balance bound is exclusive.
MeetsBoundsAboveBalance(r, mb, ms, mu) ==
    /\ r.balance > mb
    /\ r.application_score <= ms
    /\ r.utilization_rate >= mu

\* (balance >= min_balance) & (application_score <= max_score) &
\* (utilization_rate >= min_utilization) of one row.
MeetsBounds(r, mb, ms, mu) ==
    /\ r.balance >= mb
    /\ r.application_score <= ms
    /\ r.utilization_rate >= mu

\* approved_df[...].copy(): the Approved rows of d within the three bounds.
high_risk_filter(d, mb, ms, mu) ==
    LET approved_df == ApprovedOf(d)
    IN  Rows(approved_df,
             SelectSeq(approved_df.rows, LAMBDA r : MeetsBounds(r, mb, ms, mu)))

\* sort_values('risk_score', ascending=False): row a may stand before row b.
ByRiskScore(a, b) ==
    a.risk_score >= b.risk_score

\* Mutant of ByDelinquencyThenUtilization: utilization_rate sorted ascending.
ByDelinquencyThenUtilizationAscending(a, b) ==
    \/ a.delinquency_status > b.delinquency_status
    \/ /\ a.delinquency_status = b.delinquency_status
       /\ a.utilization_rate <= b.utilization_rate

\* sort_values(['delinquency_status', 'utilization_rate'],
\* ascending=[False, False]): row a may stand before row b.
ByDelinquencyThenUtilization(a, b) ==
    \/ a.delinquency_status > b.delinquency_status
    \/ /\ a.delinquency_status = b.delinquency_status
       /\ a.utilization_rate >= b.utilization_rate

\* Whether row a may stand before row b in the sorted frame: the presence of
\* the column risk_score chooses the key.
SortsBefore(d, a, b) ==
    IF "risk_score" \in d.columns
    THEN ByRiskScore(a, b)
    ELSE ByDelinquencyThenUtilization(a, b)

RECURSIVE SortOrders(_, _)
\* The orders sort_values can leave the rows `S` of d in, as sequences of row
\* numbers.  Sorting by one column uses quicksort, which may leave rows with
\* equal keys in any order; sorting by two columns is stable.
SortOrders(d, S) ==
    IF S = {}
    THEN { << >> }
    ELSE LET first == { i \in S : \A j \in S : SortsBefore(d, d.rows[i], d.rows[j]) }
             heads == IF "risk_score" \in d.columns
                      THEN first
                      ELSE { CHOOSE i \in first : \A j \in first : i <= j }
         IN  UNION { { << i >> \o rest : rest \in SortOrders(d, S \ {i}) } : i \in heads }

\* The frames high_risk_df can be after the sort.
high_risk_customers(d, mb, ms, mu) ==
    LET selected == high_risk_filter(d, mb, ms, mu)
    IN  { Rows(selected, [k \in 1..Len(order) |-> selected.rows[order[k]]]) :
            order \in SortOrders(selected, 1..Len(selected.rows)) }

\* ------------------------------------------------------------------- state

VARIABLES
    df,               \* the table load_portfolio_data returns
    call,             \* the operation that ran last
    status,           \* how it ended: "ok", "KeyError" or "skipped"
    metrics,          \* the dict the last call of calculate_portfolio_metrics returned
    min_score,        \* the three widgets of the strategy simulator
    limit_multiplier,
    income_targets,
    baseline_metrics, \* the results of the last simulation
    strategy_df,
    strategy_metrics,
    deltas,           \* the changes the comparison shows
    risk_by_score,    \* the band table of the last risk analysis
    min_balance,      \* the three inputs of the high-risk page
    max_score,
    min_utilization,
    high_risk_df,     \* the sorted table of the high-risk page
    db_type,          \* the argument of initialize_credit_portfolio_database
    csv_exists,       \* the tables whose CSV file is in the data directory
    pc,               \* where initialize_credit_portfolio_database stands
    remaining,        \* the tables the loop has still to take
    table_name,       \* the table the loop is at
    attempted,        \* the tables the loop took, in order
    load_failure,     \* the step of load_csv_to_database that raised
    success,          \* what load_csv_to_database returned
    written,          \* the tables to_sql wrote
    index_todo,       \* the columns _create_indexes has still to take
    index_attempted,  \* the columns it tried, in order
    index_failed,     \* the columns whose CREATE INDEX raised
    loaded,           \* the tables whose load returned True
    validated,        \* the tables validate_data_quality was called on, in order
    exception,        \* the exception that left the function
    result            \* what the function returned

dashboard_vars ==
    << df, call, status, metrics, min_score, limit_multiplier, income_targets,
       baseline_metrics, strategy_df, strategy_metrics, deltas, risk_by_score,
       min_balance, max_score, min_utilization, high_risk_df >>

db_vars ==
    << db_type, csv_exists, pc, remaining, table_name, attempted, load_failure,
       success, written, index_todo, index_attempted, index_failed, loaded,
       validated, exception, result >>

vars ==
    << dashboard_vars, db_vars >>

\* The widgets at their defaults and no simulation result: the page of the
\* strategy simulator is not drawn.
NoSimulation ==
    /\ min_score' = MinScoreDefault
    /\ limit_multiplier' = LimitMultiplierDefault
    /\ income_targets' = IncomeBandOptions
    /\ baseline_metrics' = << >>
    /\ strategy_df' = EmptyFrame
    /\ strategy_metrics' = << >>
    /\ deltas' = << >>

\* The inputs of the high-risk page at their defaults and no table: the page
\* is not drawn.
NoHighRisk ==
    /\ min_balance' = MinBalanceDefault
    /\ max_score' = MaxScoreDefault
    /\ min_utilization' = MinUtilizationDefault
    /\ high_risk_df' = EmptyFrame

\* db_setup.py is not run: the dashboard reads its CSV file itself.
DbNotRun ==
    /\ db_type = "sqlite"
    /\ csv_exists = {}
    /\ pc = "not run"
    /\ remaining = << >>
    /\ table_name = "none"
    /\ attempted = << >>
    /\ load_failure = "none"
    /\ success = "none"
    /\ written = {}
    /\ index_todo = << >>
    /\ index_attempted = << >>
    /\ index_failed = {}
    /\ loaded = {}
    /\ validated = << >>
    /\ exception = "none"
    /\ result = "none"

\* The dashboard before its first operation, whatever the table is.
DashboardStart ==
    /\ call = "load_portfolio_data"
    /\ status = "ok"
    /\ metrics = << >>
    /\ min_score = MinScoreDefault
    /\ limit_multiplier = LimitMultiplierDefault
    /\ income_targets = IncomeBandOptions
    /\ baseline_metrics = << >>
    /\ strategy_df = EmptyFrame
    /\ strategy_metrics = << >>
    /\ deltas = << >>
    /\ risk_by_score = << >>
    /\ min_balance = MinBalanceDefault
    /\ max_score = MaxScoreDefault
    /\ min_utilization = MinUtilizationDefault
    /\ high_risk_df = EmptyFrame

Init ==
    /\ df \in LoadablePortfolios
    /\ DashboardStart
    /\ DbNotRun

\* The script starts over: streamlit runs it from the top at every
\* interaction, the table is loaded again and nothing of the last run is kept.
Rerun ==
    /\ UNCHANGED db_vars
    /\ call # "load_portfolio_data"
    /\ call' = "load_portfolio_data"
    /\ status' = "ok"
    /\ metrics' = << >>
    /\ risk_by_score' = << >>
    /\ NoSimulation
    /\ NoHighRisk
    /\ UNCHANGED df

\* A call calculate_portfolio_metrics(df).
CalculatePortfolioMetrics ==
    /\ UNCHANGED db_vars
    /\ call = "load_portfolio_data"
    /\ call' = "calculate_portfolio_metrics"
    /\ status' = "ok"
    /\ metrics' = calculate_portfolio_metrics(df)
    /\ risk_by_score' = << >>
    /\ NoSimulation
    /\ NoHighRisk
    /\ UNCHANGED df

\* The strategy simulator with its widgets at ms, lm and targets, and the
\* button "Simulate Strategy Impact" pressed.
SimulateStrategy ==
    /\ UNCHANGED db_vars
    /\ call = "load_portfolio_data"
    /\ \E ms \in MinScoreInputs, lm \in LimitMultiplierInputs, targets \in IncomeTargetInputs :
          LET run == create_strategy_simulation(df, ms, lm, targets)
          IN  /\ call' = "create_strategy_simulation"
              /\ min_score' = ms
              /\ limit_multiplier' = lm
              /\ income_targets' = targets
              /\ status' = run.status
              /\ df' = run.source
              /\ baseline_metrics' = run.baseline_metrics
              /\ strategy_df' = run.strategy_df
              /\ strategy_metrics' = run.strategy_metrics
              /\ deltas' = run.deltas
              /\ metrics' = << >>
              /\ risk_by_score' = << >>
    /\ NoHighRisk

\* A call create_risk_analysis_charts(df).
RiskAnalysis ==
    /\ UNCHANGED db_vars
    /\ call = "load_portfolio_data"
    /\ LET run == create_risk_analysis_charts(df)
       IN  /\ call' = "create_risk_analysis_charts"
           /\ status' = run.status
           /\ risk_by_score' = run.risk_by_score
    /\ metrics' = << >>
    /\ NoSimulation
    /\ NoHighRisk
    /\ UNCHANGED df

\* main with the page "High-Risk Customers" selected and its inputs at mb, ms
\* and mu: an empty table stops the script, else the sidebar metrics are
\* computed and the filtered table is sorted.
HighRiskCustomers ==
    /\ UNCHANGED db_vars
    /\ call = "load_portfolio_data"
    /\ call' = "high_risk_customers"
    /\ \E mb \in MinBalanceInputs, ms \in MaxScoreInputs, mu \in MinUtilizationInputs :
          /\ min_balance' = mb
          /\ max_score' = ms
          /\ min_utilization' = mu
          /\ IF IsEmpty(df)
             THEN /\ status' = "stopped"
                  /\ metrics' = << >>
                  /\ high_risk_df' = EmptyFrame
             ELSE /\ status' = "ok"
                  /\ metrics' = calculate_portfolio_metrics(df)
                  /\ high_risk_df' \in high_risk_customers(df, mb, ms, mu)
    /\ risk_by_score' = << >>
    /\ NoSimulation
    /\ UNCHANGED df

Next ==
    \/ Rerun
    \/ CalculatePortfolioMetrics
    \/ SimulateStrategy
    \/ RiskAnalysis
    \/ HighRiskCustomers

Spec ==
    Init /\ [][Next]_vars

\* ------------------------------------------------------------------ db_setup

\* csv_files of initialize_credit_portfolio_database, in the order of the dict.
TableOrder ==
    << "credit_portfolio", "portfolio_with_risk_metrics",
       "risk_segment_summary", "portfolio_trends_simulation" >>

Tables ==
    {TableOrder[k] : k \in DOMAIN TableOrder}

\* indexes of _create_indexes: the columns to index, none for a table the dict
\* does not name.
Indexes(t) ==
    CASE t = "credit_portfolio" ->
             << "customer_id", "application_score", "acceptance_decision",
                "income_band", "region", "delinquency_status" >>
      [] t = "portfolio_with_risk_metrics" ->
             << "customer_id", "risk_segment", "application_score",
                "risk_score", "delinquency_status" >>
      [] OTHER -> << >>

DbTypeInputs ==
    {"sqlite", "SQLite", "postgresql", "mysql"}

\* db_type.lower() on the inputs.
Lower(t) ==
    IF t = "SQLite" THEN "sqlite" ELSE t

\* Mutant of except_Exception: the handler is missing and the exception leaves
\* load_csv_to_database.
except_nothing(step) ==
    [pc |-> "raised", success |-> "none", exception |-> step]

\* except Exception of load_csv_to_database after step raised: the error is
\* logged and False returned.
except_Exception(step) ==
    [pc |-> "load returned", success |-> "False", exception |-> "none"]

\* Mutant of if_success: the validation runs whatever the load returned.
if_anything(ok) ==
    "validate_data_quality"

\* if success: of the loop, the step that follows a load.
if_success(ok) ==
    IF ok = "True" THEN "validate_data_quality" ELSE "for"

InitDb ==
    /\ df = EmptyFrame
    /\ DashboardStart
    /\ db_type \in DbTypeInputs
    /\ csv_exists \in SUBSET Tables
    /\ pc = "CreditPortfolioDatabase"
    /\ remaining = TableOrder
    /\ table_name = "none"
    /\ attempted = << >>
    /\ load_failure = "none"
    /\ success = "none"
    /\ written = {}
    /\ index_todo = << >>
    /\ index_attempted = << >>
    /\ index_failed = {}
    /\ loaded = {}
    /\ validated = << >>
    /\ exception = "none"
    /\ result = "none"

\* db = CreditPortfolioDatabase(db_type=db_type): a db_type other than sqlite
\* and postgresql raises ValueError, and os.makedirs of the sqlite setup may
\* raise OSError; nothing catches either.
Construct ==
    /\ pc = "CreditPortfolioDatabase"
    /\ \/ /\ Lower(db_type) \in {"sqlite", "postgresql"}
          /\ pc' = "for"
          /\ UNCHANGED exception
       \/ /\ Lower(db_type) = "sqlite"
          /\ pc' = "raised"
          /\ exception' = "OSError"
       \/ /\ Lower(db_type) \notin {"sqlite", "postgresql"}
          /\ pc' = "raised"
          /\ exception' = "ValueError"
    /\ UNCHANGED << db_type, csv_exists, remaining, table_name, attempted,
                    load_failure, success, written, index_todo, index_attempted,
                    index_failed, loaded, validated, result >>
    /\ UNCHANGED dashboard_vars

\* for table_name, csv_filename in csv_files.items(): the next table; a CSV
\* that exists is loaded, one that does not is a warning.
ForTable ==
    /\ pc = "for"
    /\ remaining # << >>
    /\ table_name' = Head(remaining)
    /\ remaining' = Tail(remaining)
    /\ attempted' = Append(attempted, Head(remaining))
    /\ pc' = IF Head(remaining) \in csv_exists THEN "read_csv" ELSE "for"
    /\ load_failure' = "none"
    /\ success' = "none"
    /\ index_todo' = << >>
    /\ index_attempted' = << >>
    /\ index_failed' = {}
    /\ UNCHANGED << db_type, csv_exists, written, loaded, validated, exception, result >>
    /\ UNCHANGED dashboard_vars

\* A step of load_csv_to_database before the indexes, which passes or raises.
LoadStep(step, next) ==
    /\ pc = step
    /\ \/ /\ pc' = next
          /\ UNCHANGED << load_failure, success, exception >>
       \/ /\ load_failure' = step
          /\ pc' = except_Exception(step).pc
          /\ success' = except_Exception(step).success
          /\ exception' = except_Exception(step).exception
    /\ UNCHANGED << db_type, csv_exists, remaining, table_name, attempted,
                    index_attempted, index_failed, loaded, validated, result >>
    /\ UNCHANGED dashboard_vars

\* df = pd.read_csv(csv_file_path)
ReadCsv ==
    /\ LoadStep("read_csv", "_optimize_datatypes")
    /\ UNCHANGED << written, index_todo >>

\* df = self._optimize_datatypes(df)
OptimizeDatatypes ==
    /\ LoadStep("_optimize_datatypes", "to_sql")
    /\ UNCHANGED << written, index_todo >>

\* df.to_sql(table_name, ...), and the entry of _create_indexes when it passed.
ToSql ==
    /\ LoadStep("to_sql", "_create_indexes")
    /\ IF pc' = "_create_indexes"
       THEN /\ written' = written \cup {table_name}
            /\ index_todo' = Indexes(table_name)
       ELSE UNCHANGED << written, index_todo >>

\* One column of the loop of _create_indexes: CREATE INDEX passes, or raises
\* into the except of the loop body, a warning; the loop goes on either way.
CreateIndex ==
    /\ pc = "_create_indexes"
    /\ index_todo # << >>
    /\ index_attempted' = Append(index_attempted, Head(index_todo))
    /\ index_todo' = Tail(index_todo)
    /\ \/ UNCHANGED index_failed
       \/ index_failed' = index_failed \cup {Head(index_todo)}
    /\ UNCHANGED << db_type, csv_exists, pc, remaining, table_name, attempted,
                    load_failure, success, written, loaded, validated, exception,
                    result >>
    /\ UNCHANGED dashboard_vars

\* _create_indexes is through, and load_csv_to_database returns True.
ReturnTrue ==
    /\ pc = "_create_indexes"
    /\ index_todo = << >>
    /\ pc' = "load returned"
    /\ success' = "True"
    /\ UNCHANGED << db_type, csv_exists, remaining, table_name, attempted,
                    load_failure, written, index_todo, index_attempted,
                    index_failed, loaded, validated, exception, result >>
    /\ UNCHANGED dashboard_vars

\* success = db.load_csv_to_database(...) and the test of it.
IfSuccess ==
    /\ pc = "load returned"
    /\ pc' = if_success(success)
    /\ loaded' = IF success = "True" THEN loaded \cup {table_name} ELSE loaded
    /\ UNCHANGED << db_type, csv_exists, remaining, table_name, attempted,
                    load_failure, success, written, index_todo, index_attempted,
                    index_failed, validated, exception, result >>
    /\ UNCHANGED dashboard_vars

\* quality_results = db.validate_data_quality(table_name): the results or,
\* after an exception it catches itself, {}; the loop goes on either way.
ValidateDataQuality ==
    /\ pc = "validate_data_quality"
    /\ validated' = Append(validated, table_name)
    /\ pc' = "for"
    /\ UNCHANGED << db_type, csv_exists, remaining, table_name, attempted,
                    load_failure, success, written, index_todo, index_attempted,
                    index_failed, loaded, exception, result >>
    /\ UNCHANGED dashboard_vars

\* return db
ReturnDb ==
    /\ pc = "for"
    /\ remaining = << >>
    /\ pc' = "returned"
    /\ result' = "db"
    /\ UNCHANGED << db_type, csv_exists, remaining, table_name, attempted,
                    load_failure, success, written, index_todo, index_attempted,
                    index_failed, loaded, validated, exception >>
    /\ UNCHANGED dashboard_vars

NextDb ==
    \/ Construct
    \/ ForTable
    \/ ReadCsv
    \/ OptimizeDatatypes
    \/ ToSql
    \/ CreateIndex
    \/ ReturnTrue
    \/ IfSuccess
    \/ ValidateDataQuality
    \/ ReturnDb

SpecDb ==
    InitDb /\ [][NextDb]_vars

\* The function is sequential code: a step that can be taken is taken.
SpecDbFair ==
    SpecDb /\ WF_vars(NextDb)

\* ------------------------------------------------------------------ claims

\* The last run was a simulation that went through.
Simulated ==
    call = "create_strategy_simulation" /\ status = "ok"

\* The last run was a call of calculate_portfolio_metrics.
Calculated ==
    call = "calculate_portfolio_metrics"

\* The last run was a risk analysis that went through.
Banded ==
    call = "create_risk_analysis_charts" /\ status = "ok"

RowIds(d) ==
    1..Len(d.rows)

\* The number of Approved rows a simulation with min_score m leaves.
SimulatedApproved(d, m, targets) ==
    Len(ApprovedOf(ForceDeclined(d, eligible_mask(d, m, targets))).rows)

\* C1: running the strategy simulation never changes the source table: at
\* every step that runs the simulation, every cell of every row of the table
\* returned by load_portfolio_data is the same after it as before.
C1_SourceUnchanged ==
    [][call' = "create_strategy_simulation" => df' = df]_vars

\* C1 witness: a simulation that declined an Approved row in the working copy.
C1_Witness ==
    /\ Simulated
    /\ \E i \in RowIds(df) :
          /\ df.rows[i].acceptance_decision = "Approved"
          /\ strategy_df.rows[i].acceptance_decision = "Declined"

\* The table of the example: three approved rows, scores 450/600/700, balances
\* 100/200/300, nobody delinquent.
IsExampleTable(d) ==
    /\ Len(d.rows) = 3
    /\ Column(d, "application_score") = << 450, 600, 700 >>
    /\ Column(d, "balance") = << 100, 200, 300 >>
    /\ \A i \in RowIds(d) :
          /\ d.rows[i].acceptance_decision = "Approved"
          /\ d.rows[i].delinquency_status = 0

\* C2: in the simulated table every row whose income_band is present is Declined
\* if its application_score is below min_score or its income_band is not
\* targeted, and keeps the decision of the source table otherwise; the example
\* table under min_score=500 and all bands goes from 3 approved customers and a
\* balance of 600 to 2 approved customers and a balance of 500.
C2_EligibilityRule ==
    Simulated =>
        /\ Len(strategy_df.rows) = Len(df.rows)
        /\ \A i \in RowIds(df) :
              df.rows[i].income_band # "NaN" =>
                  strategy_df.rows[i].acceptance_decision =
                      IF \/ df.rows[i].application_score < min_score
                         \/ df.rows[i].income_band \notin income_targets
                      THEN "Declined"
                      ELSE df.rows[i].acceptance_decision
        /\ (IsExampleTable(df) /\ min_score = 500 /\ income_targets = IncomeBandOptions) =>
              /\ baseline_metrics.approved_customers = 3
              /\ baseline_metrics.portfolio_balance = 600
              /\ strategy_metrics.approved_customers = 2
              /\ strategy_metrics.portfolio_balance = 500

\* C2 witness: the example was simulated.
C2_Witness ==
    /\ Simulated
    /\ IsExampleTable(df)
    /\ min_score = 500
    /\ income_targets = IncomeBandOptions
    /\ strategy_metrics.approved_customers = 2

\* C3: on a table without an income_band column the simulation completes
\* without an error and forces a row to Declined exactly when its
\* application_score is below min_score, whatever the targeted bands are.
C3_NoIncomeBandColumn ==
    (/\ call = "create_strategy_simulation"
     /\ ~IsEmpty(df)
     /\ "income_band" \notin df.columns) =>
        /\ status = "ok"
        /\ Len(strategy_df.rows) = Len(df.rows)
        /\ \A i \in RowIds(df) :
              strategy_df.rows[i].acceptance_decision =
                  IF df.rows[i].application_score < min_score
                  THEN "Declined"
                  ELSE df.rows[i].acceptance_decision

\* C4: the simulation never turns a decline into an approval: every row that is
\* Declined in the source table is Declined in the simulated table.
C4_NoResurrection ==
    Simulated =>
        \A i \in RowIds(df) :
            df.rows[i].acceptance_decision = "Declined" =>
                strategy_df.rows[i].acceptance_decision = "Declined"

\* C4 witness: a Declined row that meets the score and the income-band
\* criterion was simulated.
C4_Witness ==
    /\ Simulated
    /\ \E i \in RowIds(df) :
          /\ df.rows[i].acceptance_decision = "Declined"
          /\ df.rows[i].application_score >= min_score
          /\ df.rows[i].income_band \in income_targets
          /\ strategy_df.rows[i].acceptance_decision = "Declined"

\* C5: raising min_score never raises the simulated approved_customers: for the
\* table and the targeted bands of a simulation, every slider value above the
\* one used gives at most, and every value below it at least, the
\* approved_customers that simulation reported.
C5_MonotoneInMinScore ==
    Simulated =>
        \A m \in MinScoreValues :
            /\ m >= min_score =>
                  SimulatedApproved(df, m, income_targets)
                      <= strategy_metrics.approved_customers
            /\ m <= min_score =>
                  SimulatedApproved(df, m, income_targets)
                      >= strategy_metrics.approved_customers

\* C5 witness: a simulation whose approved_customers a higher min_score lowers.
C5_Witness ==
    /\ Simulated
    /\ strategy_metrics.approved_customers > 0
    /\ \E m \in MinScoreValues :
          /\ m > min_score
          /\ SimulatedApproved(df, m, income_targets)
                 < strategy_metrics.approved_customers

\* C6: calculate_portfolio_metrics on the empty table returns a snapshot that
\* holds total_customers=0, approval_rate=0 and delinquency_rate=0, and
\* placeholders for avg_utilization and avg_credit_score.
C6_EmptyTableSnapshot ==
    (Calculated /\ IsEmpty(df)) =>
        /\ {"total_customers", "approval_rate", "delinquency_rate",
            "avg_utilization", "avg_credit_score"} \subseteq DOMAIN metrics
        /\ metrics.total_customers = 0
        /\ IsZero(metrics.approval_rate)
        /\ IsZero(metrics.delinquency_rate)

\* A snapshot of a table without an Approved row, as the claim wants it.
ZeroSafe(m) ==
    /\ m.approved_customers = 0
    /\ IsZero(m.approval_rate)
    /\ m.delinquent_customers = 0
    /\ IsZero(m.delinquency_rate)

\* C7: for a non-empty table without an Approved row, the source table of a
\* call or the simulated table of a policy that leaves nobody eligible,
\* calculate_portfolio_metrics reports approved_customers=0, approval_rate=0,
\* delinquent_customers=0 and delinquency_rate=0, the number zero.
C7_NoApprovedRowsZero ==
    /\ (Calculated /\ ~IsEmpty(df) /\ Len(ApprovedOf(df).rows) = 0) =>
          ZeroSafe(metrics)
    /\ (Simulated /\ Len(ApprovedOf(strategy_df).rows) = 0) =>
          ZeroSafe(strategy_metrics)

\* The values a cell of a Declined row is changed to.
OtherCellValues ==
    {0, 1, 555, 5000}

\* The aggregates of a snapshot that are taken over the Approved rows.
Aggregates(m) ==
    << m.portfolio_balance, m.total_limits, m.delinquent_customers,
       m.delinquency_rate, m.avg_utilization, m.avg_credit_score >>

\* The table d with the cell (i, col) set to v.
WithCell(d, i, col, v) ==
    [d EXCEPT !.rows[i][col] = v]

\* C8: Declined rows never contribute to an aggregate: portfolio_balance,
\* total_limits, delinquent_customers, delinquency_rate, avg_utilization and
\* avg_credit_score stay the same when the balance, credit_limit,
\* utilization_rate, application_score or delinquency_status of a Declined row
\* is changed, and portfolio_balance is the sum of balance over the Approved
\* rows.
C8_DeclinedRowsExcluded ==
    (Calculated /\ ~IsEmpty(df)) =>
        /\ metrics.portfolio_balance =
              SumSeq([i \in RowIds(df) |->
                         IF df.rows[i].acceptance_decision = "Approved"
                         THEN df.rows[i].balance
                         ELSE 0])
        /\ \A i \in RowIds(df) :
              df.rows[i].acceptance_decision = "Declined" =>
                  \A col \in {"balance", "credit_limit", "utilization_rate",
                              "application_score", "delinquency_status"} :
                      \A v \in OtherCellValues :
                          Aggregates(calculate_portfolio_metrics(WithCell(df, i, col, v)))
                              = Aggregates(metrics)

\* C8 witness: the metrics of a table with an Approved row and a Declined row
\* that has a balance and is delinquent.
C8_Witness ==
    /\ Calculated
    /\ metrics # << >>
    /\ metrics.approved_customers > 0
    /\ \E i \in RowIds(df) :
          /\ df.rows[i].acceptance_decision = "Declined"
          /\ df.rows[i].balance > 0
          /\ df.rows[i].delinquency_status > 0

\* The band of a score by the half-open intervals (-inf,500), [500,600),
\* [600,650), [650,700), [700,750), [750,+inf).
HalfOpenBand(x) ==
    IF x < 500 THEN "<500"
    ELSE IF x < 600 THEN "500-599"
    ELSE IF x < 650 THEN "600-649"
    ELSE IF x < 700 THEN "650-699"
    ELSE IF x < 750 THEN "700-749"
    ELSE "750+"

BandLabels ==
    { ScoreLabels[i] : i \in 1..Len(ScoreLabels) }

\* The customers the band table counts in band b: a band without a row has no
\* entry.
BandCustomers(b) ==
    IF b \in DOMAIN risk_by_score THEN risk_by_score[b].customers ELSE 0

\* The Approved rows of d whose score lies in the half-open band b.
HalfOpenCount(d, b) ==
    Cardinality({ i \in RowIds(d) :
                    /\ d.rows[i].acceptance_decision = "Approved"
                    /\ HalfOpenBand(d.rows[i].application_score) = b })

\* C9: score banding uses half-open intervals closed on the left: an approved
\* row with score s is counted in the band whose lower bound is <= s and whose
\* upper bound is > s (500 in '500-599', 600 in '600-649', 650 in '650-699',
\* 700 in '700-749', 750 in '750+'), so that the scores [499, 500, 649, 650]
\* give the counts <500:1, 500-599:1, 600-649:1, 650-699:1.
C9_HalfOpenBands ==
    Banded =>
        /\ \A b \in BandLabels : BandCustomers(b) = HalfOpenCount(df, b)
        /\ Column(ApprovedOf(df), "application_score") = << 499, 500, 649, 650 >> =>
              /\ BandCustomers("<500") = 1
              /\ BandCustomers("500-599") = 1
              /\ BandCustomers("600-649") = 1
              /\ BandCustomers("650-699") = 1

\* C10: the six bands partition the approved rows: the band customer counts sum
\* to the number of Approved rows, a score at or below 0 is counted in '<500'
\* and a score above 900 in '750+'.
C10_BandsPartitionApproved ==
    Banded =>
        /\ SumSeq([k \in 1..Len(ScoreLabels) |-> BandCustomers(ScoreLabels[k])])
              = Len(ApprovedOf(df).rows)
        /\ BandCustomers("<500") >=
              Cardinality({ i \in RowIds(df) :
                              /\ df.rows[i].acceptance_decision = "Approved"
                              /\ df.rows[i].application_score <= 0 })
        /\ BandCustomers("750+") >=
              Cardinality({ i \in RowIds(df) :
                              /\ df.rows[i].acceptance_decision = "Approved"
                              /\ df.rows[i].application_score > 900 })

\* The last run was the high-risk page, on a table with rows.
HighRiskListed ==
    call = "high_risk_customers" /\ status = "ok"

\* C11: the high-risk list is in non-increasing risk_score order when the table
\* has a risk_score column, and otherwise in non-increasing delinquency_status
\* order with rows of equal delinquency_status in non-increasing
\* utilization_rate order; the presence of risk_score alone decides which.
C11_HighRiskOrdering ==
    HighRiskListed =>
        \A i, j \in RowIds(high_risk_df) :
            i < j =>
                LET a == high_risk_df.rows[i]
                    b == high_risk_df.rows[j]
                IN  IF "risk_score" \in df.columns
                    THEN a.risk_score >= b.risk_score
                    ELSE /\ a.delinquency_status >= b.delinquency_status
                         /\ a.delinquency_status = b.delinquency_status =>
                                a.utilization_rate >= b.utilization_rate

\* C11 witness: a list without risk_score whose rows were moved, two of them
\* with the same delinquency_status and different utilization_rate.
C11_Witness ==
    /\ HighRiskListed
    /\ "risk_score" \notin df.columns
    /\ high_risk_df.rows # high_risk_filter(df, min_balance, max_score, min_utilization).rows
    /\ \E i, j \in RowIds(high_risk_df) :
          /\ i < j
          /\ high_risk_df.rows[i].delinquency_status = high_risk_df.rows[j].delinquency_status
          /\ high_risk_df.rows[i].utilization_rate > high_risk_df.rows[j].utilization_rate

\* The rows of df the high-risk filter is to return.
HighRiskWanted ==
    { i \in RowIds(df) :
        /\ df.rows[i].acceptance_decision = "Approved"
        /\ df.rows[i].balance >= min_balance
        /\ df.rows[i].application_score <= max_score
        /\ df.rows[i].utilization_rate >= min_utilization }

\* C12: the high-risk filter returns exactly the Approved rows with
\* balance >= min_balance, application_score <= max_score and
\* utilization_rate >= min_utilization, each once: every listed row is such a
\* row of the table, every such row is listed, and the list is as long as
\* there are such rows.
C12_HighRiskFilterExact ==
    HighRiskListed =>
        /\ Len(high_risk_df.rows) = Cardinality(HighRiskWanted)
        /\ \A k \in RowIds(high_risk_df) :
              \E i \in HighRiskWanted : high_risk_df.rows[k] = df.rows[i]
        /\ \A i \in HighRiskWanted :
              \E k \in RowIds(high_risk_df) : high_risk_df.rows[k] = df.rows[i]

\* C12 witness: a list of two or more rows, one of them exactly on the balance
\* bound, from a table with a Declined row within the bounds and an Approved
\* row outside them.
C12_Witness ==
    /\ HighRiskListed
    /\ Len(high_risk_df.rows) >= 2
    /\ \E k \in RowIds(high_risk_df) :
          /\ high_risk_df.rows[k].balance = min_balance
          /\ high_risk_df.rows[k].application_score = max_score
    /\ \E i \in RowIds(df) :
          /\ df.rows[i].acceptance_decision = "Declined"
          /\ MeetsBounds(df.rows[i], min_balance, max_score, min_utilization)
    /\ \E i \in RowIds(df) :
          /\ df.rows[i].acceptance_decision = "Approved"
          /\ ~MeetsBounds(df.rows[i], min_balance, max_score, min_utilization)

\* C13: the balance percentage change the simulation reports is
\* (simulated.portfolio_balance - baseline.portfolio_balance) /
\* baseline.portfolio_balance * 100 when baseline.portfolio_balance is not 0,
\* and a defined value (0, or a marker for "not available"), not what a
\* division by zero leaves, when it is 0.
C13_BalanceChangeZeroSafe ==
    Simulated =>
        /\ baseline_metrics.portfolio_balance # 0 =>
              deltas.balance_change =
                  Float((strategy_metrics.portfolio_balance
                             - baseline_metrics.portfolio_balance) * 100,
                        baseline_metrics.portfolio_balance)
        /\ baseline_metrics.portfolio_balance = 0 =>
              ~deltas.balance_change.nan

C15_LimitMultiplierNoOp ==
    Simulated =>
        \A lm \in {LimitMultiplierLow, LimitMultiplierDefault, LimitMultiplierHigh} :
            LET other == create_strategy_simulation(df, min_score, lm, income_targets)
            IN  /\ other.strategy_df = strategy_df
                /\ other.strategy_metrics = strategy_metrics
                /\ other.deltas = deltas

\* C15 witness: a simulation with the slider away from its default that left
\* Approved rows with credit limits to scale.
C15_Witness ==
    /\ Simulated
    /\ limit_multiplier # LimitMultiplierDefault
    /\ strategy_metrics.approved_customers > 0
    /\ strategy_metrics.total_limits > 0

\* The dict d is a snapshot of the table t with
\* delinquent_customers <= approved_customers <= total_customers and
\* total_customers the number of rows of t.
CountsOrdered(d, t) ==
    /\ d.delinquent_customers <= d.approved_customers
    /\ d.approved_customers <= d.total_customers
    /\ d.total_customers = Len(t.rows)

\* C16: the snapshot calculate_portfolio_metrics returns for a non-empty table
\* has delinquent_customers <= approved_customers <= total_customers, and
\* total_customers is the number of rows of the whole table, Approved and
\* Declined; so have the two snapshots of a simulation.
C16_CountsOrdered ==
    /\ Calculated /\ ~IsEmpty(df) => CountsOrdered(metrics, df)
    /\ Simulated => /\ CountsOrdered(baseline_metrics, df)
                    /\ CountsOrdered(strategy_metrics, strategy_df)

\* C16 witness: a snapshot of a table with Declined rows, one of them
\* delinquent, and a delinquent Approved row.
C16_Witness ==
    /\ Calculated
    /\ \E i \in RowIds(df) : /\ df.rows[i].acceptance_decision = "Declined"
                             /\ df.rows[i].delinquency_status > 0
    /\ metrics.delinquent_customers > 0
    /\ metrics.delinquent_customers < metrics.approved_customers
    /\ metrics.approved_customers < metrics.total_customers

\* The customers a table holds as Approved.
ApprovedIds(d) ==
    {d.rows[i].customer_id : i \in {k \in RowIds(d) : d.rows[k].acceptance_decision = "Approved"}}

\* C19: the simulated snapshot has the total_customers of the baseline
\* snapshot; the Approved rows of the simulated table are Approved rows of the
\* source table; hence the simulated approved_customers and approval_rate are
\* at most the baseline ones.
C19_SimulationOnlyShrinks ==
    Simulated =>
        /\ strategy_metrics.total_customers = baseline_metrics.total_customers
        /\ ApprovedIds(strategy_df) \subseteq ApprovedIds(df)
        /\ strategy_metrics.approved_customers <= baseline_metrics.approved_customers
        /\ FloatLeq(strategy_metrics.approval_rate, baseline_metrics.approval_rate)

\* C19 witness: a simulation of a table with a Declined row that passes the
\* policy and an Approved row that does not.
C19_Witness ==
    /\ Simulated
    /\ \E i \in RowIds(df) :
          /\ df.rows[i].acceptance_decision = "Declined"
          /\ eligible_mask(df, min_score, income_targets)[i]
    /\ strategy_metrics.approved_customers > 0
    /\ strategy_metrics.approved_customers < baseline_metrics.approved_customers

\* C20: with an income_band column, a row whose income_band is missing or is
\* a label other than Low, Medium and High is Declined in the simulated table,
\* and would be under every policy the widgets can build, the one with the
\* lowest min_score and all three bands among them.
C20_UnknownBandDeclined ==
    Simulated =>
        \A i \in RowIds(df) :
            df.rows[i].income_band \notin IncomeBandOptions =>
                /\ strategy_df.rows[i].acceptance_decision = "Declined"
                /\ \A targets \in SUBSET IncomeBandOptions :
                      apply_policy(df, MinScoreLow, limit_multiplier, targets).rows[i]
                          .acceptance_decision = "Declined"

\* C20 witness: the most permissive policy was simulated on a table with an
\* Approved row without income band and an Approved row with another label,
\* both above the lowest min_score.
C20_Witness ==
    /\ Simulated
    /\ min_score = MinScoreLow
    /\ income_targets = IncomeBandOptions
    /\ \E i, j \in RowIds(df) :
          /\ df.rows[i].acceptance_decision = "Approved"
          /\ df.rows[i].income_band = "NaN"
          /\ df.rows[i].application_score >= MinScoreLow
          /\ df.rows[j].acceptance_decision = "Approved"
          /\ df.rows[j].income_band \notin IncomeBandOptions \cup {"NaN"}
          /\ df.rows[j].application_score >= MinScoreLow

\* The steps of load_csv_to_database inside its try that can raise into its
\* except.
LoadSteps ==
    {"read_csv", "_optimize_datatypes", "to_sql"}

\* C17: load_csv_to_database never raises: a failure of reading the CSV, of
\* optimizing the types or of writing the table makes it return False, and it
\* returns True only after to_sql wrote the table; a failed CREATE INDEX does
\* not make the result False, and every column of the table's list is
\* attempted whatever failed before it.
C17_LoadNeverRaises ==
    /\ exception \notin LoadSteps
    /\ load_failure # "none" => success = "False"
    /\ pc = "load returned" =>
          /\ success = "False" <=> load_failure # "none"
          /\ success = "True" =>
                /\ table_name \in written
                /\ index_attempted = Indexes(table_name)

\* C17 witness: a load that returned True although CREATE INDEX failed on the
\* first and on a later column of its table, after a load that returned False.
C17_Witness ==
    /\ pc = "load returned"
    /\ success = "True"
    /\ table_name = "portfolio_with_risk_metrics"
    /\ {"customer_id", "risk_score"} \subseteq index_failed
    /\ "credit_portfolio" \in csv_exists \ loaded

\* What holds of the loop at every step: validate_data_quality was called
\* only on tables whose CSV exists and whose load returned True, the tables
\* were taken in the order of csv_files, and the function returns db, after
\* all four.
LoopOrder ==
    /\ \A k \in DOMAIN validated : validated[k] \in csv_exists \cap loaded
    /\ attempted = SubSeq(TableOrder, 1, Len(attempted))
    /\ pc = "returned" => attempted = TableOrder /\ result = "db"

\* C18 as stated: the above, and the function always returns.
C18_AlwaysReturns ==
    [](LoopOrder /\ exception = "none") /\ <>(pc = "returned")

\* C18: once the database object is constructed, validate_data_quality is
\* called on a table only after its CSV was found and its load returned True,
\* a missing CSV or a failed load does not keep the later tables from being
\* attempted, and the function returns the database object after all four
\* tables were attempted in the order credit_portfolio,
\* portfolio_with_risk_metrics, risk_segment_summary,
\* portfolio_trends_simulation. The constructor itself may raise.
C18_ValidationAfterLoad ==
    /\ [](LoopOrder /\ (pc # "CreditPortfolioDatabase" /\ exception # "none"
                            => pc = "raised" /\ attempted = << >>))
    /\ (pc = "for") ~> (pc = "returned")

\* C18 witness: the function returned after a missing CSV, a failed load and
\* two validated tables.
C18_Witness ==
    /\ pc = "returned"
    /\ "credit_portfolio" \notin csv_exists
    /\ "portfolio_with_risk_metrics" \in csv_exists \ loaded
    /\ validated = << "risk_segment_summary", "portfolio_trends_simulation" >>

\* The policy of the last simulation lets every row of the table through:
\* every application_score is at least min_score and every income_band is one
\* of the targeted bands.
IdentityPolicy ==
    \A i \in RowIds(df) :
        /\ df.rows[i].application_score >= min_score
        /\ df.rows[i].income_band \in income_targets

\* C21: identity policy: when every row's application_score is >= min_score
\* and every row's income_band is one of the targeted bands, the simulated
\* table equals the source table, every simulated metric equals its baseline
\* metric, and all four reported deltas are 0.
C21_IdentityPolicy ==
    Simulated /\ IdentityPolicy =>
        /\ strategy_df = df
        /\ strategy_metrics = baseline_metrics
        /\ IsZero(deltas.approval_change)
        /\ IsZero(deltas.balance_change)
        /\ IsZero(deltas.delinq_change)
        /\ IsZero(deltas.score_change)

====
